---- MODULE Spec2Model ----
(***************************************************************************)
(* Strigo: version resolution against a Nexus registry.                    *)
(*                                                                         *)
(*   repository/nexus.go          NexusClient.GetAvailableVersions          *)
(*   repository/version (parser)  Parser.ExtractVersion / ...ByType /       *)
(*                                ...ByDistribution                         *)
(*   repository/version           CompareVersions, ExtractMajor             *)
(*                                                                         *)
(* Go strings are modelled as sequences of one-character strings, so that  *)
(* prefix tests, substring tests, escaping and byte-wise comparison are    *)
(* computed character by character as the Go library does.                 *)
(***************************************************************************)
EXTENDS Integers, Sequences, FiniteSets, TLC

----------------------------------------------------------------------------
(* Bounds of the model.                                                    *)

\* total number of items the remote listing holds
MaxItems == 2
\* number of page requests that are recorded; pageCount saturates here
MaxPages == 3
\* number of PatternSets in a pattern table of the extractor specification
MaxPatterns == 2
\* length of a candidate path of the extractor specification
MaxPathLen == 3

\* longest version string handed to the comparator
MaxVerLen == 2
\* longest version string handed to ExtractMajor
MaxMajorLen == 4
\* versions in a listing handed to the available command
MaxListed == 3
\* lines of the shell rc file
MaxRcLines == 8
\* lines that the user writes to the shell rc file
MaxUserLines == 2

----------------------------------------------------------------------------
(* Strings.                                                                *)

EmptyStr == << >>

Digits == {"0", "1", "2", "3", "4", "5", "6", "7", "8", "9"}

\* byte value of the characters that occur in the model (ASCII)
Ord(c) ==
  CASE c = " " -> 32 [] c = "%" -> 37 [] c = "&" -> 38 [] c = "+" -> 43
    [] c = "-" -> 45 [] c = "." -> 46 [] c = "/" -> 47
    [] c = "0" -> 48 [] c = "1" -> 49 [] c = "2" -> 50 [] c = "3" -> 51
    [] c = "4" -> 52 [] c = "5" -> 53 [] c = "6" -> 54 [] c = "7" -> 55
    [] c = "8" -> 56 [] c = "9" -> 57
    [] c = "A" -> 65 [] c = "B" -> 66 [] c = "C" -> 67 [] c = "D" -> 68
    [] c = "E" -> 69 [] c = "F" -> 70 [] c = "_" -> 95
    [] c = "a" -> 97 [] c = "b" -> 98 [] c = "j" -> 106 [] c = "n" -> 110
    [] c = "o" -> 111 [] c = "t" -> 116 [] c = "u" -> 117 [] c = "x" -> 120

\* strings.HasPrefix(s, prefix)
HasPrefix(s, prefix) ==
  /\ Len(s) >= Len(prefix)
  /\ \A i \in 1..Len(prefix) : s[i] = prefix[i]

\* strings.HasSuffix(s, suffix)
HasSuffix(s, suffix) ==
  /\ Len(s) >= Len(suffix)
  /\ \A i \in 1..Len(suffix) : s[Len(s) - Len(suffix) + i] = suffix[i]

\* strings.TrimPrefix(s, prefix): removes one leading occurrence
TrimPrefix(s, prefix) ==
  IF HasPrefix(s, prefix) THEN SubSeq(s, Len(prefix) + 1, Len(s)) ELSE s

\* strings.Contains(s, substr)
Contains(s, substr) ==
  \E i \in 1..(Len(s) + 1) :
    /\ i + Len(substr) - 1 <= Len(s)
    /\ \A k \in 1..Len(substr) : s[i + k - 1] = substr[k]

\* Go's s > t on strings: byte-wise lexicographic comparison
RECURSIVE StrGreater(_, _)
StrGreater(s, t) ==
  IF s = << >> THEN FALSE
  ELSE IF t = << >> THEN TRUE
  ELSE IF Ord(Head(s)) # Ord(Head(t)) THEN Ord(Head(s)) > Ord(Head(t))
  ELSE StrGreater(Tail(s), Tail(t))

----------------------------------------------------------------------------
\* Regular expressions of the pattern table.
\*
\* A regex source string is one of four shapes over a literal L:
\*   "plus"     L(\d+)   one capture group, at least one digit
\*   "star"     L(\d*)   one capture group, possibly empty
\*   "nogroup"  L\d+     no capture group
\*   "bad"      L(\d+    unbalanced parenthesis, does not compile

Regex(kind, lit) == [kind |-> kind, lit |-> lit]

\* regexp.Compile(regexStr): err == nil
Compiles(re) == re.kind # "bad"

\* number of digits of s starting at position i (greedy \d* / \d+)
RECURSIVE DigitRun(_, _)
DigitRun(s, i) ==
  IF i <= Len(s) /\ s[i] \in Digits THEN 1 + DigitRun(s, i + 1) ELSE 0

\* the regex matches s starting at position i
MatchesAt(re, s, i) ==
  /\ i + Len(re.lit) - 1 <= Len(s)
  /\ \A k \in 1..Len(re.lit) : s[i + k - 1] = re.lit[k]
  /\ (re.kind = "star" \/ DigitRun(s, i + Len(re.lit)) >= 1)

\* re.FindStringSubmatch(s): leftmost match; << >> is nil (no match),
\* else <<whole match, capture group 1, ...>>
FindStringSubmatch(re, s) ==
  LET starts == {i \in 1..(Len(s) + 1) : MatchesAt(re, s, i)}
  IN  IF starts = {} THEN << >>
      ELSE LET i == CHOOSE m \in starts : \A o \in starts : m <= o
               d == i + Len(re.lit)
               n == DigitRun(s, d)
               whole == SubSeq(s, i, d + n - 1)
           IN  IF re.kind = "nogroup" THEN <<whole>>
               ELSE <<whole, SubSeq(s, d, d + n - 1)>>

----------------------------------------------------------------------------
(* Parser: version extraction (package version).                           *)

\* type Pattern struct { Name, Type, Description, Patterns }
Pattern(name, type, regexes) ==
  [Name |-> name, Type |-> type, Patterns |-> regexes]

NotFound == [ok |-> FALSE, version |-> EmptyStr, patternName |-> ""]

Found(v, name) == [ok |-> TRUE, version |-> v, patternName |-> name]

\* the inner loop given up at the first regex that does not compile
RECURSIVE TryRegexesBadAborts(_, _, _)
TryRegexesBadAborts(pattern, k, path) ==
  IF k > Len(pattern.Patterns) THEN NotFound
  ELSE LET re == pattern.Patterns[k]
           matches == FindStringSubmatch(re, path)
       IN  IF ~Compiles(re) THEN NotFound
           ELSE IF Len(matches) > 1 THEN Found(matches[2], pattern.Name)
           ELSE TryRegexesBadAborts(pattern, k + 1, path)

\* the inner loop "for _, regexStr := range pattern.Patterns" from regex k on:
\* the first regex that compiles and yields len(matches) > 1 returns
RECURSIVE TryRegexes(_, _, _)
TryRegexes(pattern, k, path) ==
  IF k > Len(pattern.Patterns) THEN NotFound
  ELSE LET re == pattern.Patterns[k]
           matches == FindStringSubmatch(re, path)
       IN  IF ~Compiles(re) THEN TryRegexes(pattern, k + 1, path)
           ELSE IF Len(matches) > 1 THEN Found(matches[2], pattern.Name)
           ELSE TryRegexes(pattern, k + 1, path)

\* ExtractVersion with the table walked so that the last matching PatternSet
\* wins
RECURSIVE ExtractVersionFromLastWins(_, _, _)
ExtractVersionFromLastWins(pats, i, path) ==
  IF i > Len(pats) THEN NotFound
  ELSE LET later == ExtractVersionFromLastWins(pats, i + 1, path)
       IN  IF later.ok THEN later ELSE TryRegexes(pats[i], 1, path)

\* ExtractVersion: the outer loop over p.patterns from index i on
RECURSIVE ExtractVersionFrom(_, _, _)
ExtractVersionFrom(pats, i, path) ==
  IF i > Len(pats) THEN NotFound
  ELSE LET r == TryRegexes(pats[i], 1, path)
       IN  IF r.ok THEN r ELSE ExtractVersionFrom(pats, i + 1, path)

ExtractVersion(pats, path) == ExtractVersionFrom(pats, 1, path)

\* ExtractVersionByType without the type test
RECURSIVE ExtractVersionByTypeFromAnyType(_, _, _, _)
ExtractVersionByTypeFromAnyType(pats, i, path, sdkType) ==
  IF i > Len(pats) THEN NotFound
  ELSE LET r == TryRegexes(pats[i], 1, path)
       IN  IF r.ok THEN r
           ELSE ExtractVersionByTypeFromAnyType(pats, i + 1, path, sdkType)

\* ExtractVersionByType: the outer loop, skipping patterns of another type
RECURSIVE ExtractVersionByTypeFrom(_, _, _, _)
ExtractVersionByTypeFrom(pats, i, path, sdkType) ==
  IF i > Len(pats) THEN NotFound
  ELSE IF pats[i].Type # sdkType /\ pats[i].Type # "*"
       THEN ExtractVersionByTypeFrom(pats, i + 1, path, sdkType)
  ELSE LET r == TryRegexes(pats[i], 1, path)
       IN  IF r.ok THEN r
           ELSE ExtractVersionByTypeFrom(pats, i + 1, path, sdkType)

ExtractVersionByType(pats, path, sdkType) ==
  ExtractVersionByTypeFrom(pats, 1, path, sdkType)

\* ExtractVersionByDistribution without the name test
RECURSIVE ExtractVersionByDistributionFromAnyName(_, _, _, _)
ExtractVersionByDistributionFromAnyName(pats, i, path, distribution) ==
  IF i > Len(pats) THEN NotFound
  ELSE LET r == TryRegexes(pats[i], 1, path)
       IN  IF r.ok THEN r
           ELSE ExtractVersionByDistributionFromAnyName(pats, i + 1, path,
                                                        distribution)

\* ExtractVersionByDistribution: the outer loop, skipping patterns of another
\* name
RECURSIVE ExtractVersionByDistributionFrom(_, _, _, _)
ExtractVersionByDistributionFrom(pats, i, path, distribution) ==
  IF i > Len(pats) THEN NotFound
  ELSE IF pats[i].Name # distribution
       THEN ExtractVersionByDistributionFrom(pats, i + 1, path, distribution)
  ELSE LET r == TryRegexes(pats[i], 1, path)
       IN  IF r.ok THEN r
           ELSE ExtractVersionByDistributionFrom(pats, i + 1, path,
                                                 distribution)

ExtractVersionByDistribution(pats, path, distribution) ==
  ExtractVersionByDistributionFrom(pats, 1, path, distribution)

----------------------------------------------------------------------------
(* The comparator (package version): CompareVersions.                      *)

\* strings.Replace(s, old, new, -1) for one-character old and new
Replace(s, old, new) ==
  [i \in DOMAIN s |-> IF s[i] = old THEN new ELSE s[i]]

\* position of the first sep in s, 0 when there is none
RECURSIVE IndexFrom(_, _, _)
IndexFrom(s, sep, i) ==
  IF i > Len(s) THEN 0
  ELSE IF s[i] = sep THEN i
  ELSE IndexFrom(s, sep, i + 1)

\* strings.Split(s, sep) for a one-character sep: never an empty list
RECURSIVE Split(_, _)
Split(s, sep) ==
  LET i == IndexFrom(s, sep, 1)
  IN  IF i = 0 THEN <<s>>
      ELSE <<SubSeq(s, 1, i - 1)>> \o Split(SubSeq(s, i + 1, Len(s)), sep)

\* s without its leading zeros
RECURSIVE StripZeros(_)
StripZeros(s) ==
  IF s # << >> /\ Head(s) = "0" THEN StripZeros(Tail(s)) ELSE s

\* the magnitudes of the largest and of the smallest int (64 bits)
MaxIntDigits ==
  <<"9", "2", "2", "3", "3", "7", "2", "0", "3", "6", "8", "5", "4", "7", "7",
    "5", "8", "0", "7">>

MinIntDigits ==
  <<"9", "2", "2", "3", "3", "7", "2", "0", "3", "6", "8", "5", "4", "7", "7",
    "5", "8", "0", "8">>

\* magnitude a is smaller than magnitude b (digit strings without leading
\* zeros)
MagLess(a, b) ==
  \/ Len(a) < Len(b)
  \/ Len(a) = Len(b) /\ StrGreater(b, a)

\* strconv.Atoi(s): an optional sign, then digits only and at least one, and
\* a value that fits an int; the value is kept as sign and magnitude
Atoi(s) ==
  LET signed == s # << >> /\ Head(s) \in {"+", "-"}
      digits == IF signed THEN Tail(s) ELSE s
      mag == StripZeros(digits)
      neg == signed /\ Head(s) = "-" /\ mag # << >>
      limit == IF neg THEN MinIntDigits ELSE MaxIntDigits
  IN  IF /\ digits # << >>
         /\ \A i \in DOMAIN digits : digits[i] \in Digits
         /\ ~MagLess(limit, mag)
      THEN [ok |-> TRUE, neg |-> neg, mag |-> mag]
      ELSE [ok |-> FALSE, neg |-> FALSE, mag |-> << >>]

\* n1 < n2 for two parsed ints
IntLess(n1, n2) ==
  IF n1.neg # n2.neg THEN n1.neg
  ELSE IF n1.neg THEN MagLess(n2.mag, n1.mag)
  ELSE MagLess(n1.mag, n2.mag)

\* lines 79-80: "u" and "_" rewritten to ".", then split on "."
VersionParts(v) == Split(Replace(Replace(v, "u", "."), "_", "."), ".")

\* the parts compared as strings whatever they are
PartOrderLexical(p1, p2) ==
  IF StrGreater(p2, p1) THEN "less"
  ELSE IF StrGreater(p1, p2) THEN "greater"
  ELSE "equal"

\* the numeric comparison made with <= and >=
PartOrderLessOrEqual(p1, p2) ==
  LET n1 == Atoi(p1)
      n2 == Atoi(p2)
  IN  IF ~n1.ok \/ ~n2.ok
      THEN IF StrGreater(p2, p1) THEN "less"
           ELSE IF StrGreater(p1, p2) THEN "greater"
           ELSE "equal"
      ELSE IF ~IntLess(n2, n1) THEN "less"
           ELSE IF ~IntLess(n1, n2) THEN "greater"
           ELSE "equal"

\* lines 89-110: one position of the loop; as strings when either part is not
\* an int, as ints otherwise
PartOrder(p1, p2) ==
  LET n1 == Atoi(p1)
      n2 == Atoi(p2)
  IN  IF ~n1.ok \/ ~n2.ok
      THEN IF StrGreater(p2, p1) THEN "less"
           ELSE IF StrGreater(p1, p2) THEN "greater"
           ELSE "equal"
      ELSE IF IntLess(n1, n2) THEN "less"
           ELSE IF IntLess(n2, n1) THEN "greater"
           ELSE "equal"

\* the shorter or equally long version taken for the older one
FewerPartsOrSame(v1Parts, v2Parts) == Len(v1Parts) <= Len(v2Parts)

\* line 114: return len(v1Parts) < len(v2Parts)
FewerParts(v1Parts, v2Parts) == Len(v1Parts) < Len(v2Parts)

\* lines 83-114: the loop over the common positions from position i on
RECURSIVE CompareFrom(_, _, _)
CompareFrom(v1Parts, v2Parts, i) ==
  LET minLen == IF Len(v2Parts) < Len(v1Parts) THEN Len(v2Parts)
                ELSE Len(v1Parts)
  IN  IF i > minLen THEN FewerParts(v1Parts, v2Parts)
      ELSE LET o == PartOrder(v1Parts[i], v2Parts[i])
           IN  IF o = "less" THEN TRUE
               ELSE IF o = "greater" THEN FALSE
               ELSE CompareFrom(v1Parts, v2Parts, i + 1)

\* CompareVersions(v1, v2): v1 is older than v2
CompareVersions(v1, v2) == CompareFrom(VersionParts(v1), VersionParts(v2), 1)

----------------------------------------------------------------------------
(* URL query escaping of the continuation token.                           *)

Chars ==
  {" ", "%", "&", "+", "-", ".", "/", "_"} \cup Digits
    \cup {"A", "B", "C", "D", "E", "F"}
    \cup {"a", "b", "j", "n", "o", "t", "u", "x"}

\* characters url.QueryEscape leaves alone
Unreserved == (Chars \ {" ", "%", "&", "+", "/"})

HexDigits ==
  <<"0", "1", "2", "3", "4", "5", "6", "7", "8", "9",
    "A", "B", "C", "D", "E", "F">>

HexValue(h) == (CHOOSE k \in 1..16 : HexDigits[k] = h) - 1

\* url.QueryEscape(s): space becomes '+', a reserved byte becomes %XX
RECURSIVE QueryEscape(_)
QueryEscape(s) ==
  IF s = << >> THEN << >>
  ELSE LET c == Head(s)
           e == IF c = " " THEN <<"+">>
                ELSE IF c \in Unreserved THEN <<c>>
                ELSE <<"%", HexDigits[(Ord(c) \div 16) + 1],
                            HexDigits[(Ord(c) % 16) + 1]>>
       IN  e \o QueryEscape(Tail(s))

\* the decoding the server applies to a query parameter (url.QueryUnescape)
RECURSIVE QueryUnescape(_)
QueryUnescape(s) ==
  IF s = << >> THEN << >>
  ELSE IF Head(s) = "+" THEN <<" ">> \o QueryUnescape(Tail(s))
  ELSE IF Head(s) = "%" /\ Len(s) >= 3
       THEN LET n == 16 * HexValue(s[2]) + HexValue(s[3])
            IN  <<CHOOSE c \in Chars : Ord(c) = n>>
                  \o QueryUnescape(SubSeq(s, 4, Len(s)))
  ELSE <<Head(s)>> \o QueryUnescape(Tail(s))

----------------------------------------------------------------------------
(* Inputs of the resolver specification.                                   *)

\* repo.Path as configured: four spellings of a/b, and the empty path
RepoPaths ==
  { <<"a", "/", "b">>, <<"/", "a", "/", "b">>, <<"a", "/", "b", "/">>,
    <<"/", "a", "/", "b", "/">>, << >> }

\* repo.Type of the resolved distribution
SdkTypes == {"jdk"}

\* versionFilter: none, or the substring "1"
Filters == { << >>, <<"1">> }

\* continuation tokens the remote hands out: "a" with the first page, and
\* from then on "+" and "a" in turn
NextToken(token) == IF token = <<"a">> THEN <<"+">> ELSE <<"a">>

\* type NexusAsset struct { Path, DownloadUrl, Checksum }
NexusAsset(path, url) == [Path |-> path, DownloadUrl |-> url]

\* the items the remote listing is made of: /a/b/j1 under two URLs, /a/b/j2,
\* /a/b-o/j2 in a sibling directory, and /a/b/n1 of another SDK type
NexusAssets ==
  { NexusAsset(<<"/", "a", "/", "b", "/", "j", "1">>, "u1"),
    NexusAsset(<<"/", "a", "/", "b", "/", "j", "1">>, "u2"),
    NexusAsset(<<"/", "a", "/", "b", "/", "j", "2">>, "u1"),
    NexusAsset(<<"/", "a", "/", "b", "-", "o", "/", "j", "2">>, "u2"),
    NexusAsset(<<"/", "a", "/", "b", "/", "n", "1">>, "u1") }

\* the pattern table the parser of the resolver is loaded with
ResolverPatterns ==
  << Pattern("w", "web", << Regex("star", <<"/">>) >>),
     Pattern("t", "jdk", << Regex("bad", <<"j">>), Regex("plus", <<"j">>) >>),
     Pattern("n", "node", << Regex("plus", <<"n">>) >>) >>

\* sequences over S of length at most n
SeqsUpTo(S, n) == UNION {[1..k -> S] : k \in 0..n}

----------------------------------------------------------------------------
(* State.                                                                  *)

VARIABLES
  patterns,           \* Parser.patterns
  repoPath,           \* repo.Path
  repoType,           \* repo.Type
  versionFilter,      \* versionFilter argument
  apiURLValid,        \* whether http.NewRequest accepts apiURL
  pc,                 \* position in GetAvailableVersions
  continuationToken,  \* local continuationToken
  pageCount,          \* local pageCount (saturates at MaxPages)
  allItems,           \* local allItems
  idx,                \* index of the range loop over allItems
  seenVersions,       \* local seenVersions (set of keys mapped to true)
  sdkAssets,          \* local sdkAssets
  ignoredFiles,       \* local ignoredFiles
  result,             \* returned []SDKAsset (<< >> is nil)
  err,                \* returned error
  requests,           \* history: the page requests issued, in order
  pages,              \* history: the pages the remote returned, in order
  exPath,             \* extractor specification: path argument
  exType,             \* extractor specification: type argument
  exOut,              \* extractor specification: last call and its result
  remoteItems,        \* the assets the remote repository holds
  username,           \* registry.Username
  password,           \* registry.Password
  verA,               \* comparator specification: a version string
  verB,               \* comparator specification: a version string
  verC,               \* comparator specification: a version string
  verOut,             \* comparator specification: last call and its result
  cmdOut,             \* commands: what the last command printed and did
  installPathExists,  \* install: os.Stat(installPath) succeeds
  rcFile,             \* use: the lines of the shell rc file
  rcLast,             \* use: who wrote the rc file last, and the number
                      \* of lines the user has written to it
  fsEntries,          \* cache: the directories that exist
  keepCache           \* cache: cfg.General.KeepCache

vars ==
  << patterns, repoPath, repoType, versionFilter, apiURLValid, pc,
     continuationToken, pageCount, allItems, idx, seenVersions, sdkAssets,
     ignoredFiles, result, err, requests, pages, exPath, exType, exOut,
     remoteItems, username, password, verA, verB, verC, verOut, cmdOut,
     installPathExists, rcFile, rcLast, fsEntries, keepCache >>

inputVars ==
  << patterns, repoPath, repoType, versionFilter, apiURLValid, remoteItems,
     username, password >>

extractVars == << exPath, exType, exOut >>

versionVars == << verA, verB, verC, verOut >>

commandVars ==
  << cmdOut, installPathExists, rcFile, rcLast, fsEntries, keepCache >>

\* no command of the command line under way
NoCommands ==
  /\ cmdOut = [op |-> "none"]
  /\ installPathExists = FALSE
  /\ rcFile = << >>
  /\ rcLast = [op |-> "none", written |-> 0]
  /\ fsEntries = {}
  /\ keepCache = FALSE

NoErr == [kind |-> "nil"]

\* locals of GetAvailableVersions at entry (lines 57-72)
ResolverLocals ==
  /\ pc = "fetch"
  /\ continuationToken = << >>
  /\ pageCount = 0
  /\ allItems = << >>
  /\ idx = 0
  /\ seenVersions = {}
  /\ sdkAssets = << >>
  /\ ignoredFiles = << >>
  /\ result = << >>
  /\ err = NoErr
  /\ requests = << >>
  /\ pages = << >>

\* the specifications of the extractor and of the comparator at rest
NoCalls ==
  /\ exPath = << >>
  /\ exType = ""
  /\ exOut = [op |-> "none"]
  /\ verA = << >>
  /\ verB = << >>
  /\ verC = << >>
  /\ verOut = [op |-> "none"]
  /\ NoCommands

\* a call of GetAvailableVersions on an anonymous registry
Init ==
  /\ patterns = ResolverPatterns
  /\ repoPath \in RepoPaths
  /\ repoType \in SdkTypes
  /\ versionFilter \in Filters
  /\ apiURLValid \in BOOLEAN
  /\ remoteItems = NexusAssets
  /\ username = ""
  /\ password = ""
  /\ ResolverLocals
  /\ NoCalls

----------------------------------------------------------------------------
(* GetAvailableVersions (repository/nexus.go).                             *)

\* type SDKAsset struct { Version, DownloadUrl, Filename, Size }
SDKAsset(v, url) ==
  [Version |-> v, DownloadUrl |-> url, Filename |-> v, Size |-> 0]

\* an error that leaves the loop but not the function ("break")
ReturnErrorBreak(e) ==
  /\ pc' = "process"
  /\ result' = << >>
  /\ err' = e

\* "return nil, fmt.Errorf(...)"
ReturnError(e) ==
  /\ pc' = "done"
  /\ result' = << >>
  /\ err' = e

\* lines 147-150: "/" + TrimPrefix(distributionPath, "/"), then a trailing "/"
NormalizePrefix(distributionPath) ==
  LET p == <<"/">> \o TrimPrefix(distributionPath, <<"/">>)
  IN  IF ~HasSuffix(p, <<"/">>) THEN p \o <<"/">> ELSE p

\* the prefix filter as substring containment of the configured path
PrefixRejectsContains(distributionPath, itemPath) ==
  /\ distributionPath # << >>
  /\ ~Contains(itemPath, distributionPath)

\* the prefix test made for the empty path as well
PrefixRejectsEmptyToo(distributionPath, itemPath) ==
  ~HasPrefix(itemPath, NormalizePrefix(distributionPath))

\* line 158: the item is ignored by the prefix filter
PrefixRejects(distributionPath, itemPath) ==
  /\ distributionPath # << >>
  /\ ~HasPrefix(itemPath, NormalizePrefix(distributionPath))

\* the page replaces the working set
AccumulateOverwrite(all, items) == items

\* line 126: allItems = append(allItems, data.Items...)
Accumulate(all, items) == all \o items

\* a version counts as seen when a seen one is neither older nor newer
AlreadySeenByComparator(seen, v) ==
  \E w \in seen : ~CompareVersions(v, w) /\ ~CompareVersions(w, v)

\* no version counts as seen
AlreadySeenNever(seen, v) == FALSE

\* line 175: seenVersions[versionName]
AlreadySeen(seen, v) == v \in seen

\* a later item of a version replaces the asset of that version
AddAssetLastWins(assets, seen, v, url) ==
  IF ~AlreadySeen(seen, v) THEN Append(assets, SDKAsset(v, url))
  ELSE [k \in DOMAIN assets |->
          IF assets[k].Version = v THEN SDKAsset(v, url) ELSE assets[k]]

\* lines 175-184: the first item of a version is appended, later ones are not
AddAsset(assets, seen, v, url) ==
  IF ~AlreadySeen(seen, v) THEN Append(assets, SDKAsset(v, url)) ELSE assets

\* the same error with and without a filter
EmptyResultErrorNoFilterCase(filter, path) ==
  [kind |-> "no_versions", path |-> path]

\* lines 205-210: the error of an empty result
EmptyResultError(filter, path) ==
  IF filter # << >>
  THEN [kind |-> "no_version_for_filter", filter |-> filter, path |-> path]
  ELSE [kind |-> "no_versions", path |-> path]

\* the token appended to the URL as it is
BuildRequestUnescaped(token) ==
  IF token # << >>
  THEN [hasToken |-> TRUE, tokenParam |-> token]
  ELSE [hasToken |-> FALSE, tokenParam |-> << >>]

\* lines 79-82: the request of this iteration
BuildRequest(token) ==
  IF token # << >>
  THEN [hasToken |-> TRUE, tokenParam |-> QueryEscape(token)]
  ELSE [hasToken |-> FALSE, tokenParam |-> << >>]

\* credentials sent as soon as a user name is configured
SetBasicAuthUserOnly(user, pass) ==
  IF user # ""
  THEN [auth |-> TRUE, user |-> user, pass |-> pass]
  ELSE [auth |-> FALSE, user |-> "", pass |-> ""]

\* lines 93-98: the credentials the request carries, when both are configured
SetBasicAuth(user, pass) ==
  IF user # "" /\ pass # ""
  THEN [auth |-> TRUE, user |-> user, pass |-> pass]
  ELSE [auth |-> FALSE, user |-> "", pass |-> ""]

\* One iteration of the pagination loop (lines 74-136).  The remote answers
\* with a transport error, a status other than 200, a body that does not
\* decode, or a page.  The listing holds at most MaxItems items, all within
\* the pages that are recorded.
FetchPage ==
  /\ pc = "fetch"
  /\ pageCount' = IF pageCount < MaxPages THEN pageCount + 1 ELSE pageCount
  /\ UNCHANGED << inputVars, extractVars, versionVars, commandVars, idx,
                  seenVersions, sdkAssets, ignoredFiles >>
  /\ IF ~apiURLValid
     THEN /\ ReturnError([kind |-> "create_request"])
          /\ UNCHANGED << continuationToken, allItems, requests, pages >>
     ELSE /\ requests' = IF Len(requests) < MaxPages
                         THEN Append(requests,
                                     BuildRequest(continuationToken)
                                       @@ SetBasicAuth(username, password))
                         ELSE requests
          /\ \/ /\ ReturnError([kind |-> "query_failed"])
                /\ UNCHANGED << continuationToken, allItems, pages >>
             \/ \E code \in {404, 500} :
                  /\ ReturnError([kind |-> "status", code |-> code,
                                  path |-> repoPath])
                  /\ UNCHANGED << continuationToken, allItems, pages >>
             \/ /\ ReturnError([kind |-> "decode"])
                /\ UNCHANGED << continuationToken, allItems, pages >>
             \/ \E items \in SeqsUpTo(remoteItems, MaxItems - Len(allItems)),
                   token \in { << >>, NextToken(continuationToken) } :
                  /\ Len(pages) >= MaxPages => items = << >>
                  /\ pages' = IF Len(pages) < MaxPages
                              THEN Append(pages, [items |-> items,
                                                  token |-> token])
                              ELSE pages
                  /\ allItems' = Accumulate(allItems, items)
                  /\ IF token # << >>
                     THEN /\ continuationToken' = token
                          /\ pc' = "fetch"
                     ELSE /\ continuationToken' = continuationToken
                          /\ pc' = "process"
                  /\ UNCHANGED << result, err >>

\* One iteration of "for _, item := range allItems" (lines 152-185)
ProcessItem ==
  /\ pc = "process"
  /\ idx < Len(allItems)
  /\ idx' = idx + 1
  /\ LET item == allItems[idx + 1]
         r == ExtractVersionByType(patterns, item.Path, repoType)
     IN  IF PrefixRejects(repoPath, item.Path)
         THEN /\ ignoredFiles' = Append(ignoredFiles, item.Path)
              /\ UNCHANGED << seenVersions, sdkAssets >>
         ELSE IF ~r.ok
         THEN /\ ignoredFiles' = Append(ignoredFiles, item.Path)
              /\ UNCHANGED << seenVersions, sdkAssets >>
         ELSE /\ seenVersions' = seenVersions \cup {r.version}
              /\ sdkAssets' = AddAsset(sdkAssets, seenVersions, r.version,
                                       item.DownloadUrl)
              /\ UNCHANGED ignoredFiles
  /\ UNCHANGED << inputVars, extractVars, versionVars, commandVars, pc,
                  continuationToken, pageCount, allItems, result, err,
                  requests, pages >>

\* the filter taken for a prefix of the version
FilterAssetsHasPrefix(assets, filter) ==
  IF filter # << >>
  THEN SelectSeq(assets, LAMBDA a : HasPrefix(a.Version, filter))
  ELSE assets

\* lines 194-203: keep the assets whose version contains the filter
FilterAssets(assets, filter) ==
  IF filter # << >>
  THEN SelectSeq(assets, LAMBDA a : Contains(a.Version, filter))
  ELSE assets

\* lines 213-215: sort.Slice with less(i, j) = Version[i] > Version[j]
RECURSIVE InsertDesc(_, _)
InsertDesc(a, sorted) ==
  IF sorted = << >> THEN <<a>>
  ELSE IF StrGreater(a.Version, Head(sorted).Version) THEN <<a>> \o sorted
  ELSE <<Head(sorted)>> \o InsertDesc(a, Tail(sorted))

\* the assets left in the order of the listing
SortDescUnsorted(assets) == assets

RECURSIVE SortDesc(_)
SortDesc(assets) ==
  IF assets = << >> THEN << >>
  ELSE InsertDesc(Head(assets), SortDesc(Tail(assets)))

\* After the loop: version filter, empty-result errors, sort, return
\* (lines 187-217)
Finish ==
  /\ pc = "process"
  /\ idx = Len(allItems)
  /\ LET filtered == FilterAssets(sdkAssets, versionFilter)
     IN  IF Len(filtered) = 0
         THEN /\ sdkAssets' = filtered
              /\ ReturnError(EmptyResultError(versionFilter, repoPath))
         ELSE /\ sdkAssets' = SortDesc(filtered)
              /\ pc' = "done"
              /\ result' = SortDesc(filtered)
              /\ err' = NoErr
  /\ UNCHANGED << inputVars, extractVars, versionVars, commandVars,
                  continuationToken, pageCount, allItems, idx, seenVersions,
                  ignoredFiles, requests, pages >>

Next == FetchPage \/ ProcessItem \/ Finish

Spec == Init /\ [][Next]_vars

\* every page fetch returns, and the code after it runs on
LiveSpec ==
  Init /\ [][Next]_vars /\ WF_vars(FetchPage) /\ WF_vars(ProcessItem)
    /\ WF_vars(Finish)

----------------------------------------------------------------------------
(* The extractor on its own: a loaded table, a path, a type, and the calls. *)

PathChars == {"b", "j", "1", "2"}

\* the sdkType argument
ExtractTypes == {"jdk", "node"}

ExtractPaths == SeqsUpTo(PathChars, MaxPathLen)

\* PatternSets a table is made of
PatternPool ==
  { Pattern("t", "jdk", << Regex("bad", <<"j">>), Regex("plus", <<"j">>) >>),
    Pattern("m", "jdk", << Regex("plus", <<"j">>), Regex("plus", << >>) >>),
    Pattern("s", "jdk", << Regex("nogroup", <<"j">>), Regex("star", <<"b">>) >>),
    Pattern("n", "node", << Regex("plus", <<"b">>) >>),
    Pattern("g", "*", << Regex("plus", << >>) >>) }

PatternTables == SeqsUpTo(PatternPool, MaxPatterns)

ExtractInit ==
  /\ patterns \in PatternTables
  /\ exPath \in ExtractPaths
  /\ exType \in ExtractTypes
  /\ exOut = [op |-> "none"]
  /\ verA = << >>
  /\ verB = << >>
  /\ verC = << >>
  /\ verOut = [op |-> "none"]
  /\ repoPath = << >>
  /\ repoType = ""
  /\ versionFilter = << >>
  /\ apiURLValid = TRUE
  /\ remoteItems = {}
  /\ username = ""
  /\ password = ""
  /\ NoCommands
  /\ pc = "extract"
  /\ continuationToken = << >>
  /\ pageCount = 0
  /\ allItems = << >>
  /\ idx = 0
  /\ seenVersions = {}
  /\ sdkAssets = << >>
  /\ ignoredFiles = << >>
  /\ result = << >>
  /\ err = NoErr
  /\ requests = << >>
  /\ pages = << >>

resolverVars ==
  << repoPath, repoType, versionFilter, apiURLValid, remoteItems, username,
     password, pc, continuationToken, pageCount, allItems, idx, seenVersions,
     sdkAssets, ignoredFiles, result, err, requests, pages >>

\* a call p.ExtractVersion(path)
CallExtractVersion ==
  /\ pc = "extract"
  /\ exOut' = [op |-> "ExtractVersion", r |-> ExtractVersion(patterns, exPath)]
  /\ UNCHANGED << patterns, exPath, exType, resolverVars, versionVars,
                  commandVars >>

\* a call that drops from the table the regexes that do not compile
CallExtractVersionByTypePruning ==
  /\ pc = "extract"
  /\ exOut' = [op |-> "ExtractVersionByType",
               nth |-> IF exOut.op = "ExtractVersionByType" THEN 2 ELSE 1,
               r |-> ExtractVersionByType(patterns, exPath, exType)]
  /\ patterns' = [i \in DOMAIN patterns |->
                    [patterns[i] EXCEPT
                       !.Patterns = SelectSeq(@, LAMBDA re : Compiles(re))]]
  /\ UNCHANGED << exPath, exType, resolverVars, versionVars, commandVars >>

\* a call p.ExtractVersionByType(path, sdkType); nth tells a call that
\* follows another call with the same arguments from the first one
CallExtractVersionByType ==
  /\ pc = "extract"
  /\ exOut' = [op |-> "ExtractVersionByType",
               nth |-> IF exOut.op = "ExtractVersionByType" THEN 2 ELSE 1,
               r |-> ExtractVersionByType(patterns, exPath, exType)]
  /\ UNCHANGED << patterns, exPath, exType, resolverVars, versionVars,
                  commandVars >>

\* the distribution argument: the names of the pool
Distributions == {p.Name : p \in PatternPool}

\* a call p.ExtractVersionByDistribution(path, distribution)
CallExtractVersionByDistribution ==
  /\ pc = "extract"
  /\ \E distribution \in Distributions :
       exOut' = [op |-> "ExtractVersionByDistribution",
                 distribution |-> distribution,
                 r |-> ExtractVersionByDistribution(patterns, exPath,
                                                    distribution)]
  /\ UNCHANGED << patterns, exPath, exType, resolverVars, versionVars,
                  commandVars >>

ExtractNext ==
  \/ CallExtractVersion
  \/ CallExtractVersionByType
  \/ CallExtractVersionByDistribution

ExtractSpec == ExtractInit /\ [][ExtractNext]_vars

----------------------------------------------------------------------------
(* Properties of the resolver.                                             *)

\* the items the remote returned, in page order and then in-page order
RECURSIVE Flatten(_)
Flatten(ps) == IF ps = << >> THEN << >> ELSE Head(ps).items \o Flatten(Tail(ps))

\* the errors of a page fetch
FetchErrorKinds == {"create_request", "query_failed", "status", "decode"}

\* the item passes the prefix filter and the extractor finds a version in it
Extracts(item) ==
  /\ ~PrefixRejects(repoPath, item.Path)
  /\ ExtractVersionByType(patterns, item.Path, repoType).ok

VersionOf(item) == ExtractVersionByType(patterns, item.Path, repoType).version

\* the four spellings of the path that normalize to /a/b/
SpellingsOfAB ==
  { <<"a", "/", "b">>, <<"/", "a", "/", "b">>, <<"a", "/", "b", "/">>,
    <<"/", "a", "/", "b", "/">> }

\* a path under a directory whose name starts with the text /a/b but goes on
IsSiblingOfAB(path) ==
  /\ Len(path) >= 5
  /\ SubSeq(path, 1, 4) = <<"/", "a", "/", "b">>
  /\ path[5] # "/"

\* C1: a successful call returns no two assets with the same version string.
C1_UniqueVersions ==
  (pc = "done" /\ err = NoErr) =>
    \A i, j \in 1..Len(result) :
      i # j => result[i].Version # result[j].Version

\* a successful call over a listing in which a version is repeated
C1_Witness ==
  /\ pc = "done"
  /\ err = NoErr
  /\ \E i, j \in 1..Len(allItems) :
       /\ i < j
       /\ Extracts(allItems[i])
       /\ Extracts(allItems[j])
       /\ VersionOf(allItems[i]) = VersionOf(allItems[j])
       /\ \E m \in 1..Len(result) : result[m].Version = VersionOf(allItems[i])

\* C2: with a path that normalizes to /a/b/, the loop iteration over an item
\* of a sibling directory /a/b-.../ adds no asset and marks no version seen,
\* and a returned asset is always one of the assets the loop collected.
C2_SiblingNeverContributes ==
  [][ /\ ( /\ pc = "process"
           /\ idx < Len(allItems)
           /\ repoPath \in SpellingsOfAB
           /\ IsSiblingOfAB(allItems[idx + 1].Path) )
         => (sdkAssets' = sdkAssets /\ seenVersions' = seenVersions)
      /\ (pc' = "done" /\ err' = NoErr)
         => \A m \in 1..Len(result') :
              \E k \in 1..Len(sdkAssets) : result'[m] = sdkAssets[k]
    ]_vars

\* the loop has just passed a sibling item that a pattern of the requested
\* type matches
C2_Witness ==
  /\ pc = "process"
  /\ idx >= 1
  /\ repoPath \in SpellingsOfAB
  /\ IsSiblingOfAB(allItems[idx].Path)
  /\ ExtractVersionByType(patterns, allItems[idx].Path, repoType).ok
  /\ VersionOf(allItems[idx]) \notin seenVersions

\* C3 as stated: the working set holds every item of every page when the
\* filtering starts, and every item that passes the prefix filter and
\* extracts a version has that version in the result.
C3_EveryExtractedVersionReturned ==
  /\ (pc = "process" /\ idx = 0) => allItems = Flatten(pages)
  /\ (pc = "done" /\ err.kind \notin FetchErrorKinds) =>
       \A i \in 1..Len(Flatten(pages)) :
         LET item == Flatten(pages)[i]
         IN  Extracts(item) =>
               \E m \in 1..Len(result) : result[m].Version = VersionOf(item)

\* C3 amended: the working set holds every item of every page when the
\* filtering starts, and every item that passes the prefix filter and
\* extracts a version that contains the version filter (any version when
\* there is no filter) has that version in the result.
C3_AllPagesAccumulated ==
  /\ (pc = "process" /\ idx = 0) => allItems = Flatten(pages)
  /\ (pc = "done" /\ err.kind \notin FetchErrorKinds) =>
       \A i \in 1..Len(Flatten(pages)) :
         LET item == Flatten(pages)[i]
         IN  (Extracts(item) /\ Contains(VersionOf(item), versionFilter)) =>
               \E m \in 1..Len(result) : result[m].Version = VersionOf(item)

\* a successful call whose second page brought a version the first did not
C3_Witness ==
  /\ pc = "done"
  /\ err = NoErr
  /\ Len(pages) >= 2
  /\ \E k \in 1..Len(pages[2].items) :
       LET item == pages[2].items[k]
       IN  /\ Extracts(item)
           /\ \A h \in 1..Len(pages[1].items) :
                ~(Extracts(pages[1].items[h])
                  /\ VersionOf(pages[1].items[h]) = VersionOf(item))
           /\ \E m \in 1..Len(result) : result[m].Version = VersionOf(item)

\* C4: the first request has no token; request i > 1 is sent after page i-1
\* was received, that page had a token, and the request's token parameter
\* decodes to it; a page without a token is followed by no request.
C4_SequentialTokens ==
  /\ Len(requests) <= Len(pages) + 1
  /\ Len(requests) >= 1 => ~requests[1].hasToken
  /\ \A i \in 2..Len(requests) :
       /\ pages[i - 1].token # << >>
       /\ requests[i].hasToken
       /\ QueryUnescape(requests[i].tokenParam) = pages[i - 1].token
  /\ \A i \in 1..Len(pages) :
       pages[i].token = << >> => (Len(requests) = i /\ pc # "fetch")

\* a third request, carrying the token of the second page
C4_Witness ==
  /\ Len(requests) >= 3
  /\ Len(pages) >= 2
  /\ pages[1].token # pages[2].token
  /\ requests[3].tokenParam = <<"%", "2", "B">>

\* C5: a request that is not answered by a decodable page ends the call with
\* a fetch error and no assets, and after a fetch error nothing more happens.
C5_FetchErrorIsFatal ==
  [][ /\ Len(requests') > Len(pages')
         => (pc' = "done" /\ err'.kind \in FetchErrorKinds /\ result' = << >>)
      /\ err'.kind \in FetchErrorKinds => (pc' = "done" /\ result' = << >>)
      /\ err.kind \in FetchErrorKinds => UNCHANGED vars
    ]_vars

\* a later page fails after items were accumulated
C5_Witness ==
  /\ pc = "done"
  /\ err.kind = "status"
  /\ Len(pages) >= 1
  /\ allItems # << >>
  /\ \E i \in 1..Len(allItems) : Extracts(allItems[i])
  /\ result = << >>

\* C8: every collected or returned asset carries the download URL of the
\* earliest item, in page order and then in-page order, that passes the
\* prefix filter and extracts the asset's version.
C8_FirstItemWins ==
  pc \in {"process", "done"} =>
    \A a \in {sdkAssets[k] : k \in 1..Len(sdkAssets)}
               \cup {result[k] : k \in 1..Len(result)} :
      LET served == Flatten(pages)
          from == {i \in 1..Len(served) :
                     Extracts(served[i]) /\ VersionOf(served[i]) = a.Version}
      IN  /\ from # {}
          /\ LET first == CHOOSE i \in from : \A o \in from : i <= o
             IN  a.DownloadUrl = served[first].DownloadUrl

\* a version is returned that two items with different URLs extract
C8_Witness ==
  /\ pc = "done"
  /\ err = NoErr
  /\ \E i, j \in 1..Len(allItems) :
       /\ i < j
       /\ Extracts(allItems[i])
       /\ Extracts(allItems[j])
       /\ VersionOf(allItems[i]) = VersionOf(allItems[j])
       /\ allItems[i].DownloadUrl # allItems[j].DownloadUrl
       /\ \E m \in 1..Len(result) :
            /\ result[m].Version = VersionOf(allItems[i])
            /\ result[m].DownloadUrl = allItems[i].DownloadUrl

\* C9: a call never succeeds with an empty list; when all pages were fetched
\* and no item passes the prefix filter, extracts a version and passes the
\* version filter, the call returns no assets and the error "no version
\* <filter> found ..." if a filter was given, "no versions found ..." if not;
\* these two errors are returned in no other case.
C9_EmptyResultIsError ==
  pc = "done" =>
    LET remaining == {i \in 1..Len(allItems) :
                        /\ Extracts(allItems[i])
                        /\ Contains(VersionOf(allItems[i]), versionFilter)}
    IN  /\ err = NoErr => Len(result) > 0
        /\ err.kind \notin FetchErrorKinds =>
             /\ (remaining = {} /\ versionFilter # << >>) =>
                  /\ result = << >>
                  /\ err = [kind |-> "no_version_for_filter",
                            filter |-> versionFilter, path |-> repoPath]
             /\ (remaining = {} /\ versionFilter = << >>) =>
                  /\ result = << >>
                  /\ err = [kind |-> "no_versions", path |-> repoPath]
             /\ remaining # {} => err = NoErr

\* the filter removed every asset that the loop had collected
C9_Witness ==
  /\ pc = "done"
  /\ err.kind = "no_version_for_filter"
  /\ seenVersions # {}
  /\ result = << >>

\* C10: every call ends, with a result or an error.
C10_Terminates == <>(pc = "done")

----------------------------------------------------------------------------
(* Properties of the extractor.                                            *)

\* regex k of PatternSet p yields a version for the path
RegexYields(p, k, path) ==
  /\ Compiles(p.Patterns[k])
  /\ Len(FindStringSubmatch(p.Patterns[k], path)) > 1

\* PatternSet p matches the path
SetMatches(p, path) == \E k \in 1..Len(p.Patterns) : RegexYields(p, k, path)

\* what PatternSet p gives for a path it matches: the capture group of its
\* earliest regex that yields one, and its name
MatchOf(p, path) ==
  LET k == CHOOSE h \in 1..Len(p.Patterns) :
                /\ RegexYields(p, h, path)
                /\ \A o \in 1..(h - 1) : ~RegexYields(p, o, path)
  IN  Found(FindStringSubmatch(p.Patterns[k], path)[2], p.Name)

\* C6: ExtractVersion returns the match of the earliest PatternSet of the
\* table that matches the path, taken from the earliest matching regex of
\* that PatternSet; any PatternSet that matches later in the table loses.
C6_FirstMatchWins ==
  exOut.op = "ExtractVersion" =>
    \A i \in 1..Len(patterns) :
      ( /\ SetMatches(patterns[i], exPath)
        /\ \A o \in 1..(i - 1) : ~SetMatches(patterns[o], exPath) )
      => exOut.r = MatchOf(patterns[i], exPath)

\* two PatternSets match the path with different versions and the call
\* returned the first one's
C6_Witness ==
  /\ exOut.op = "ExtractVersion"
  /\ Len(patterns) >= 2
  /\ SetMatches(patterns[1], exPath)
  /\ SetMatches(patterns[2], exPath)
  /\ MatchOf(patterns[1], exPath) # MatchOf(patterns[2], exPath)
  /\ MatchOf(patterns[1], exPath).version # MatchOf(patterns[2], exPath).version
  /\ exOut.r = MatchOf(patterns[1], exPath)

\* C7: ExtractVersionByType returns the match of the earliest PatternSet
\* among those of the requested type or of type "*" that matches the path,
\* and NotFound exactly when none of those matches.
C7_OnlyEligibleTypes ==
  exOut.op = "ExtractVersionByType" =>
    LET eligible == {i \in 1..Len(patterns) :
                       patterns[i].Type = exType \/ patterns[i].Type = "*"}
        matching == {i \in eligible : SetMatches(patterns[i], exPath)}
    IN  /\ matching = {} <=> ~exOut.r.ok
        /\ matching = {} => exOut.r = NotFound
        /\ \A i \in matching :
             (\A o \in matching : i <= o)
               => exOut.r = MatchOf(patterns[i], exPath)

\* an earlier PatternSet of another type matches the path, and the call
\* returned the match of a later eligible one
C7_Witness ==
  /\ exOut.op = "ExtractVersionByType"
  /\ Len(patterns) >= 2
  /\ patterns[1].Type \notin {exType, "*"}
  /\ SetMatches(patterns[1], exPath)
  /\ SetMatches(patterns[2], exPath)
  /\ exOut.r = MatchOf(patterns[2], exPath)
  /\ exOut.r # MatchOf(patterns[1], exPath)

\* the PatternSets a call may use: all of them, those of the requested type
\* or of type "*", or those of the requested name
Eligible(call) ==
  {i \in 1..Len(patterns) :
     \/ call.op = "ExtractVersion"
     \/ call.op = "ExtractVersionByType"
          /\ (patterns[i].Type = exType \/ patterns[i].Type = "*")
     \/ call.op = "ExtractVersionByDistribution"
          /\ patterns[i].Name = call.distribution}

\* regex k of PatternSet p matches the path with a first capture group that
\* is not empty
RegexYieldsText(p, k, path) ==
  /\ RegexYields(p, k, path)
  /\ FindStringSubmatch(p.Patterns[k], path)[2] # EmptyStr

\* C12: a successful ExtractVersion, ExtractVersionByType or
\* ExtractVersionByDistribution call returns a version that is not empty, and
\* a regex whose first capture group is empty is passed over: the call
\* succeeds exactly when some regex of some PatternSet it may use yields a
\* capture group that is not empty.
C12_VersionNeverEmpty ==
  exOut.op # "none" =>
    /\ exOut.r.ok => exOut.r.version # EmptyStr
    /\ exOut.r.ok <=>
         \E i \in Eligible(exOut) : \E k \in 1..Len(patterns[i].Patterns) :
           RegexYieldsText(patterns[i], k, exPath)

----------------------------------------------------------------------------
(* The prefix filter over a listing that spells its paths both ways.       *)

\* a listing with /a/b/j1, with a/b/j2 written without its leading "/", with
\* /a/b-o/j2 of a sibling directory, and with /a/b/x1 that no pattern matches
PrefixAssets ==
  { NexusAsset(<<"/", "a", "/", "b", "/", "j", "1">>, "u1"),
    NexusAsset(<<"a", "/", "b", "/", "j", "2">>, "u1"),
    NexusAsset(<<"/", "a", "/", "b", "-", "o", "/", "j", "2">>, "u2"),
    NexusAsset(<<"/", "a", "/", "b", "/", "x", "1">>, "u2") }

PrefixInit ==
  /\ patterns = ResolverPatterns
  /\ repoPath \in RepoPaths
  /\ repoType \in SdkTypes
  /\ versionFilter = << >>
  /\ apiURLValid = TRUE
  /\ remoteItems = PrefixAssets
  /\ username = ""
  /\ password = ""
  /\ ResolverLocals
  /\ NoCalls

PrefixSpec == PrefixInit /\ [][Next]_vars

\* the prefix made to start with "/" and to end with "/"
WithSlashes(prefix) ==
  LET p == IF HasPrefix(prefix, <<"/">>) THEN prefix ELSE <<"/">> \o prefix
  IN  IF HasSuffix(p, <<"/">>) THEN p ELSE p \o <<"/">>

\* the loop iteration of this step took a version from its item
TakesVersion ==
  /\ pc = "process"
  /\ idx < Len(allItems)
  /\ idx' = idx + 1
  /\ ignoredFiles' = ignoredFiles

\* the loop iteration of this step ignored its item
IgnoresItem ==
  /\ pc = "process"
  /\ idx < Len(allItems)
  /\ idx' = idx + 1
  /\ ignoredFiles' # ignoredFiles

\* C11 as stated: whatever the configured path, the empty one included, a
\* loop iteration takes a version from an item only if the item's path starts
\* with the normalized prefix.
C11_OnlyUnderNormalizedPrefix ==
  [][ TakesVersion =>
        HasPrefix(allItems[idx + 1].Path, WithSlashes(repoPath)) ]_vars

\* C11 amended: with a configured path that is not empty, a loop iteration
\* takes a version from an item only if the item's path starts with the
\* normalized prefix; with the empty path no prefix test is made, and an item
\* is ignored only when no pattern of the requested type extracts a version.
C11_PrefixTestUnlessEmpty ==
  [][ /\ (TakesVersion /\ repoPath # << >>) =>
           HasPrefix(allItems[idx + 1].Path, WithSlashes(repoPath))
      /\ (IgnoresItem /\ repoPath = << >>) =>
           ~ExtractVersionByType(patterns, allItems[idx + 1].Path,
                                 repoType).ok
    ]_vars

\* with the empty path, the loop has just taken a version from an item whose
\* path does not start with "/"
C11_Witness ==
  /\ pc = "process"
  /\ idx >= 1
  /\ repoPath = << >>
  /\ ~HasPrefix(allItems[idx].Path, <<"/">>)
  /\ VersionOf(allItems[idx]) \in seenVersions
  /\ \E k \in 1..Len(sdkAssets) :
       sdkAssets[k].Version = VersionOf(allItems[idx])

----------------------------------------------------------------------------
(* Registries with and without credentials.                                *)

\* registry.Username and registry.Password: left out, or configured
Usernames == {"", "admin"}

Passwords == {"", "secret"}

\* a listing of two versions
AuthAssets ==
  { NexusAsset(<<"/", "a", "/", "b", "/", "j", "1">>, "u1"),
    NexusAsset(<<"/", "a", "/", "b", "/", "j", "2">>, "u1") }

AuthInit ==
  /\ patterns = ResolverPatterns
  /\ repoPath = <<"a", "/", "b">>
  /\ repoType \in SdkTypes
  /\ versionFilter = << >>
  /\ apiURLValid \in BOOLEAN
  /\ remoteItems = AuthAssets
  /\ username \in Usernames
  /\ password \in Passwords
  /\ ResolverLocals
  /\ NoCalls

AuthSpec == AuthInit /\ [][Next]_vars

\* C13: every request of a call, the first one and every continuation
\* request, carries the configured user name and password as Basic auth when
\* both are configured, and no request carries any when they are not; after a
\* request that failed no further request is made.
C13_SameAuthOnEveryPage ==
  [][ /\ \A i \in 1..Len(requests') :
           IF username # "" /\ password # ""
           THEN /\ requests'[i].auth
                /\ requests'[i].user = username
                /\ requests'[i].pass = password
           ELSE ~requests'[i].auth
      /\ err.kind \in FetchErrorKinds => requests' = requests
    ]_vars

\* a continuation request went out with the credentials of the first one
C13_Witness ==
  /\ username = "admin"
  /\ password = "secret"
  /\ Len(requests) >= 2
  /\ ~requests[1].hasToken
  /\ requests[2].hasToken
  /\ requests[1].auth
  /\ requests[2].auth
  /\ requests[2].user = "admin"

----------------------------------------------------------------------------
(* The comparator on its own: versions, and the calls of a sort.           *)

\* characters of the versions compared in pairs
CompareChars == {"0", "1", "2", "a", ".", "u", "_", "+"}

\* versions named in the documentation of the comparator
DocVersions ==
  { <<"2", "1", ".", "0", ".", "6">>,
    <<"2", "1", ".", "0", ".", "6", "_", "7">>,
    <<"8", "u", "4", "4", "2", "b", "0", "6">>,
    <<"1", "1", ".", "0", ".", "2", "6", "_", "4">> }

CompareInputs == SeqsUpTo(CompareChars, MaxVerLen) \cup DocVersions

\* the resolver and the extractor at rest
NoResolve ==
  /\ patterns = << >>
  /\ repoPath = << >>
  /\ repoType = ""
  /\ versionFilter = << >>
  /\ apiURLValid = TRUE
  /\ remoteItems = {}
  /\ username = ""
  /\ password = ""
  /\ continuationToken = << >>
  /\ pageCount = 0
  /\ allItems = << >>
  /\ idx = 0
  /\ seenVersions = {}
  /\ sdkAssets = << >>
  /\ ignoredFiles = << >>
  /\ result = << >>
  /\ err = NoErr
  /\ requests = << >>
  /\ pages = << >>
  /\ exPath = << >>
  /\ exType = ""
  /\ exOut = [op |-> "none"]
  /\ NoCommands

\* two versions to compare
CompareInit ==
  /\ verA \in CompareInputs
  /\ verB \in CompareInputs
  /\ verC = << >>
  /\ verOut = [op |-> "none"]
  /\ pc = "compare"
  /\ NoResolve

\* the calls a sort makes on three versions: less(a, b), less(b, a),
\* less(b, c), less(a, c) and less(a, a)
CallCompareVersions ==
  /\ pc = "compare"
  /\ verOut' = [op |-> "CompareVersions",
                ab |-> CompareVersions(verA, verB),
                ba |-> CompareVersions(verB, verA),
                bc |-> CompareVersions(verB, verC),
                ac |-> CompareVersions(verA, verC),
                aa |-> CompareVersions(verA, verA)]
  /\ UNCHANGED << verA, verB, verC, patterns, extractVars, resolverVars,
                  commandVars >>

CompareNext == CallCompareVersions

CompareSpec == CompareInit /\ [][CompareNext]_vars

\* C14: for two version strings that differ, CompareVersions does not hold
\* in both directions.
C14_NotBothOlder ==
  (verOut.op = "CompareVersions" /\ verA # verB) => ~(verOut.ab /\ verOut.ba)

\* two different strings were compared and one is older than the other
C14_Witness ==
  /\ verOut.op = "CompareVersions"
  /\ verA # verB
  /\ verOut.ab
  /\ ~verOut.ba

\* characters of the versions compared in threes
OrderChars == {"1", "2", "a", "."}

OrderInputs == SeqsUpTo(OrderChars, MaxVerLen)

\* three versions to sort
OrderInit ==
  /\ verA \in OrderInputs
  /\ verB \in OrderInputs
  /\ verC \in OrderInputs
  /\ verOut = [op |-> "none"]
  /\ pc = "compare"
  /\ NoResolve

OrderSpec == OrderInit /\ [][CompareNext]_vars

\* every part of the version parses as an int
AllNumeric(v) ==
  \A i \in DOMAIN VersionParts(v) : Atoi(VersionParts(v)[i]).ok

PartOlder(p, q) ==
  IF Atoi(p).ok /\ Atoi(q).ok THEN IntLess(Atoi(p), Atoi(q))
  ELSE StrGreater(q, p)

----------------------------------------------------------------------------
(* The comparator (package version): ExtractMajor.                         *)

\* regexp `^(\d+)\..*` (sep ".") and `^(\d+)u.*` (sep "u") on the version:
\* << >> is nil (no match), else <<whole match, capture group 1>>
FindLeadingInt(version, sep) ==
  LET n == DigitRun(version, 1)
  IN  IF n >= 1 /\ n < Len(version) /\ version[n + 1] = sep
      THEN <<version, SubSeq(version, 1, n)>>
      ELSE << >>

\* the cutset of line 44: the letters, "-" and "_"
PrefixCutset ==
  { "a", "b", "c", "d", "e", "f", "g", "h", "i", "j", "k", "l", "m", "n", "o",
    "p", "q", "r", "s", "t", "u", "v", "w", "x", "y", "z",
    "A", "B", "C", "D", "E", "F", "G", "H", "I", "J", "K", "L", "M", "N", "O",
    "P", "Q", "R", "S", "T", "U", "V", "W", "X", "Y", "Z", "-", "_" }

\* strings.TrimLeft(s, cutset)
RECURSIVE TrimLeft(_, _)
TrimLeft(s, cutset) ==
  IF s # << >> /\ Head(s) \in cutset THEN TrimLeft(Tail(s), cutset) ELSE s

\* a bare integer taken for a version
HasSeparatorAlways(cleanVersion) == TRUE

\* lines 48-50: the cleaned version has a "." or a "u" somewhere
HasSeparator(cleanVersion) ==
  Contains(cleanVersion, <<".">>) \/ Contains(cleanVersion, <<"u">>)

\* lines 43-63: the fallback on the version without its prefix
MajorOfClean(version) ==
  LET cleanVersion == TrimLeft(version, PrefixCutset)
      parts == Split(cleanVersion, ".")
      majorPart == Split(parts[1], "u")[1]
  IN  IF ~HasSeparator(cleanVersion) THEN EmptyStr
      ELSE IF Atoi(majorPart).ok THEN majorPart
      ELSE EmptyStr

\* ExtractMajor(version)
ExtractMajor(version) ==
  IF version = EmptyStr THEN EmptyStr
  ELSE IF Len(FindLeadingInt(version, ".")) > 1
       THEN FindLeadingInt(version, ".")[2]
  ELSE IF Len(FindLeadingInt(version, "u")) > 1
       THEN FindLeadingInt(version, "u")[2]
  ELSE MajorOfClean(version)

\* characters of the versions handed to ExtractMajor
MajorChars == {"1", "2", ".", "u", "a", "-", "_", "+"}

\* versions named in the documentation of ExtractMajor
DocMajorVersions ==
  { <<"2", "1">>,
    <<"2", "1", ".", "0">>,
    <<"j", "d", "k", "-", "1", "7", ".", "0", ".", "1", "1">> }

MajorInputs ==
  SeqsUpTo(MajorChars, MaxMajorLen) \cup DocVersions \cup DocMajorVersions

\* a version to take the major of
MajorInit ==
  /\ verA \in MajorInputs
  /\ verB = << >>
  /\ verC = << >>
  /\ verOut = [op |-> "none"]
  /\ pc = "major"
  /\ NoResolve

\* a call ExtractMajor(version)
CallExtractMajor ==
  /\ pc = "major"
  /\ verOut' = [op |-> "ExtractMajor", r |-> ExtractMajor(verA)]
  /\ UNCHANGED << verA, verB, verC, patterns, extractVars, resolverVars,
                  commandVars >>

MajorNext == CallExtractMajor

MajorSpec == MajorInit /\ [][MajorNext]_vars

\* the leading run of digits of s when a "." or a "u" follows it at once,
\* the empty string otherwise
LeadingIntCheck(s) ==
  LET n == DigitRun(s, 1)
  IN  IF n >= 1 /\ n < Len(s) /\ s[n + 1] \in {".", "u"}
      THEN SubSeq(s, 1, n)
      ELSE EmptyStr

\* C17: for a version that begins with a digit, ExtractMajor returns the
\* leading run of digits when a "." or a "u" follows it at once and the empty
\* string otherwise; 21 gives the empty string, 21.0 gives 21, 8u442b06
\* gives 8, and the empty string gives the empty string.
C17_LeadingDigits ==
  verOut.op = "ExtractMajor" =>
    /\ (verA # EmptyStr /\ Head(verA) \in Digits) =>
         verOut.r = LeadingIntCheck(verA)
    /\ verA = EmptyStr => verOut.r = EmptyStr
    /\ verA = <<"2", "1">> => verOut.r = EmptyStr
    /\ verA = <<"2", "1", ".", "0">> => verOut.r = <<"2", "1">>
    /\ verA = <<"8", "u", "4", "4", "2", "b", "0", "6">> => verOut.r = <<"8">>

\* a version that begins with digits not followed by a separator, with a
\* separator further on, gave the empty string
C17_Witness ==
  /\ verOut.op = "ExtractMajor"
  /\ verA # EmptyStr
  /\ Head(verA) \in Digits
  /\ LeadingIntCheck(verA) = EmptyStr
  /\ Contains(verA, <<".">>)
  /\ verOut.r = EmptyStr

\* s without its leading run of letters, "-" and "_"
RECURSIVE WithoutPrefix(_)
WithoutPrefix(s) ==
  IF s # << >> /\ Head(s) \in PrefixCutset THEN WithoutPrefix(Tail(s)) ELSE s

\* C18: for a version on which neither leading-integer check succeeds,
\* whatever other characters it holds, ExtractMajor returns what the same two
\* checks give on the version without its leading run of letters, "-" and
\* "_", the empty string when they fail there too; jdk-17.0.11 gives 17.
C18_SameChecksOnRemainder ==
  verOut.op = "ExtractMajor" =>
    /\ LeadingIntCheck(verA) = EmptyStr =>
         verOut.r = LeadingIntCheck(WithoutPrefix(verA))
    /\ verA = <<"j", "d", "k", "-", "1", "7", ".", "0", ".", "1", "1">> =>
         verOut.r = <<"1", "7">>

----------------------------------------------------------------------------
(* A listing that spells one version in two ways.                          *)

\* /a/b/j1 and /a/b/j01, whose versions 1 and 01 are different strings and
\* the same number, and /a/b/j2
DedupAssets ==
  { NexusAsset(<<"/", "a", "/", "b", "/", "j", "1">>, "u1"),
    NexusAsset(<<"/", "a", "/", "b", "/", "j", "0", "1">>, "u2"),
    NexusAsset(<<"/", "a", "/", "b", "/", "j", "2">>, "u1") }

DedupInit ==
  /\ patterns = ResolverPatterns
  /\ repoPath = <<"a", "/", "b">>
  /\ repoType \in SdkTypes
  /\ versionFilter \in Filters
  /\ apiURLValid = TRUE
  /\ remoteItems = DedupAssets
  /\ username = ""
  /\ password = ""
  /\ ResolverLocals
  /\ NoCalls

DedupSpec == DedupInit /\ [][Next]_vars

\* C19 as stated: of any two assets of a result, one is older than the other
\* under CompareVersions.
C19_DistinctUnderComparator ==
  (pc = "done" /\ err = NoErr) =>
    \A i, j \in 1..Len(result) :
      i # j => \/ CompareVersions(result[i].Version, result[j].Version)
               \/ CompareVersions(result[j].Version, result[i].Version)

\* C19 amended: the assets of a result differ in their version strings, and
\* every version string that was extracted and passes the version filter is
\* in the result exactly once, whether or not CompareVersions tells it from
\* the others.
C19_DistinctAsStrings ==
  (pc = "done" /\ err = NoErr) =>
    /\ \A i, j \in 1..Len(result) :
         i # j => result[i].Version # result[j].Version
    /\ \A k \in 1..Len(allItems) :
         ( /\ Extracts(allItems[k])
           /\ Contains(VersionOf(allItems[k]), versionFilter) )
         => Cardinality({m \in 1..Len(result) :
                           result[m].Version = VersionOf(allItems[k])}) = 1

\* a result with two assets neither of which is older than the other
C19_Witness ==
  /\ pc = "done"
  /\ err = NoErr
  /\ \E i, j \in 1..Len(result) :
       /\ i # j
       /\ result[i].Version # result[j].Version
       /\ ~CompareVersions(result[i].Version, result[j].Version)
       /\ ~CompareVersions(result[j].Version, result[i].Version)

----------------------------------------------------------------------------
(* The error of an empty result.                                           *)

\* the errors of an empty result
EmptyResultKinds == {"no_version_for_filter", "no_versions"}

\* C20: when a call with a version filter ends with an empty result and no
\* asset had been collected before the filter was applied, the error is "no
\* versions found for <path>"; the error "no version <filter> found" is
\* returned only when assets had been collected before the filter.
C20_ErrorComparesCounts ==
  (pc = "done" /\ err.kind \in EmptyResultKinds) =>
    /\ (versionFilter # << >> /\ seenVersions = {}) =>
         err = [kind |-> "no_versions", path |-> repoPath]
    /\ err.kind = "no_version_for_filter" => seenVersions # {}

----------------------------------------------------------------------------
(* Properties of the extractor: malformed regexes, named PatternSets,      *)
(* repeated calls.                                                         *)

\* the table without the regexes that do not compile
WithoutBadRegexes(pats) ==
  [i \in DOMAIN pats |->
     [pats[i] EXCEPT !.Patterns = SelectSeq(@, LAMBDA re : Compiles(re))]]

\* C21: the result of an ExtractVersion, ExtractVersionByType or
\* ExtractVersionByDistribution call is the result the same call gives on
\* the table without its regexes that do not compile.
C21_BadRegexSkipped ==
  /\ exOut.op = "ExtractVersion" =>
       exOut.r = ExtractVersion(WithoutBadRegexes(patterns), exPath)
  /\ exOut.op = "ExtractVersionByType" =>
       exOut.r = ExtractVersionByType(WithoutBadRegexes(patterns), exPath,
                                      exType)
  /\ exOut.op = "ExtractVersionByDistribution" =>
       exOut.r = ExtractVersionByDistribution(WithoutBadRegexes(patterns),
                                              exPath, exOut.distribution)

\* the first PatternSet starts with a regex that does not compile, and the
\* call returned the match of a later regex of that PatternSet
C21_Witness ==
  /\ exOut.op = "ExtractVersionByType"
  /\ Len(patterns) >= 1
  /\ ~Compiles(patterns[1].Patterns[1])
  /\ exOut.r.ok
  /\ exOut.r.patternName = patterns[1].Name
  /\ exOut.r.version # EmptyStr

\* C24: ExtractVersionByDistribution tries only the PatternSets called by
\* the requested name: a successful call returns that name and the match of
\* the earliest such PatternSet that matches, and the call gives NotFound
\* when none of them matches, whatever the other PatternSets match.
C24_OnlyNamedPatternSet ==
  exOut.op = "ExtractVersionByDistribution" =>
    LET named == {i \in 1..Len(patterns) :
                    patterns[i].Name = exOut.distribution}
        matching == {i \in named : SetMatches(patterns[i], exPath)}
    IN  /\ exOut.r.ok => exOut.r.patternName = exOut.distribution
        /\ matching = {} => exOut.r = NotFound
        /\ \A i \in matching :
             (\A o \in matching : i <= o)
               => exOut.r = MatchOf(patterns[i], exPath)

\* the path is matched by a PatternSet of another name only, and the call
\* gave NotFound
C24_Witness ==
  /\ exOut.op = "ExtractVersionByDistribution"
  /\ Len(patterns) >= 2
  /\ patterns[1].Name # exOut.distribution
  /\ patterns[2].Name = exOut.distribution
  /\ SetMatches(patterns[1], exPath)
  /\ ~SetMatches(patterns[2], exPath)
  /\ exOut.r = NotFound

----------------------------------------------------------------------------
(* Properties of the resolver: version filter and order of the result.     *)

\* C22: a successful call with a version filter returns exactly the
\* collected versions that contain the filter as a substring, each once.
C22_FilterIsSubstring ==
  (pc = "done" /\ err = NoErr /\ versionFilter # << >>) =>
    /\ \A m \in 1..Len(result) :
         /\ result[m].Version \in seenVersions
         /\ Contains(result[m].Version, versionFilter)
    /\ \A v \in seenVersions :
         Contains(v, versionFilter) =>
           Cardinality({m \in 1..Len(result) : result[m].Version = v}) = 1

\* a filtered result that holds a version with the filter after its first
\* character and leaves out a version without the filter
C22_Witness ==
  /\ pc = "done"
  /\ err = NoErr
  /\ versionFilter # << >>
  /\ \E m \in 1..Len(result) :
       /\ Contains(result[m].Version, versionFilter)
       /\ ~HasPrefix(result[m].Version, versionFilter)
  /\ \E v \in seenVersions : ~Contains(v, versionFilter)

\* C23: in a returned list every version is greater, as a string, than the
\* version that follows it.
C23_SortedDescendingAsStrings ==
  (pc = "done" /\ err = NoErr) =>
    \A m \in 1..(Len(result) - 1) :
      StrGreater(result[m].Version, result[m + 1].Version)

\* a result of two versions that came in the other order and that
\* CompareVersions does not tell apart
C23_Witness ==
  /\ pc = "done"
  /\ err = NoErr
  /\ Len(result) = 2
  /\ VersionOf(allItems[1]) = result[2].Version
  /\ \E m \in 1..1 :
       /\ ~CompareVersions(result[m].Version, result[m + 1].Version)
       /\ ~CompareVersions(result[m + 1].Version, result[m].Version)

----------------------------------------------------------------------------
(* The available command (cmd/available.go).                               *)

\* strconv.Itoa of an int kept as sign and magnitude
Itoa(n) ==
  IF n.mag = << >> THEN <<"0">>
  ELSE IF n.neg THEN <<"-">> \o n.mag
  ELSE n.mag

\* ExtractMajorVersion(versionStr) of package cmd: ExtractMajor and a log
ExtractMajorVersion(versionStr) == ExtractMajor(versionStr)

\* sort.Slice on a short slice of versions with less = CompareVersions: the
\* insertion sort, each element moved left while it is older than the one
\* before it
RECURSIVE InsertOlderFirst(_, _)
InsertOlderFirst(sorted, v) ==
  IF sorted # << >> /\ CompareVersions(v, sorted[Len(sorted)])
  THEN InsertOlderFirst(SubSeq(sorted, 1, Len(sorted) - 1), v)
         \o <<sorted[Len(sorted)]>>
  ELSE sorted \o <<v>>

RECURSIVE SortOlderFirst(_)
SortOlderFirst(versions) ==
  IF versions = << >> THEN << >>
  ELSE InsertOlderFirst(SortOlderFirst(SubSeq(versions, 1, Len(versions) - 1)),
                        versions[Len(versions)])

\* the keys of versionGroups: the majors that are not empty (lines 268-278)
GroupKeys(versions) ==
  {ExtractMajorVersion(versions[i]) : i \in DOMAIN versions} \ {EmptyStr}

\* versionGroups[major], nil for a key the map does not hold
VersionGroup(versions, major) ==
  IF major \in GroupKeys(versions)
  THEN SelectSeq(versions, LAMBDA v : ExtractMajorVersion(v) = major)
  ELSE << >>

\* sort.Ints: n put into an ascending list
RECURSIVE InsertInt(_, _)
InsertInt(n, sorted) ==
  IF sorted = << >> THEN <<n>>
  ELSE IF IntLess(Head(sorted), n)
       THEN <<Head(sorted)>> \o InsertInt(n, Tail(sorted))
  ELSE <<n>> \o sorted

\* lines 281-287: the keys that strconv.Atoi parses, as ints in ascending
\* order, one entry for each key
RECURSIVE SortedMajors(_)
SortedMajors(keys) ==
  IF keys = {} THEN << >>
  ELSE LET major == CHOOSE k \in keys : TRUE
           rest == SortedMajors(keys \ {major})
       IN  IF Atoi(major).ok THEN InsertInt(Atoi(major), rest) ELSE rest

\* displayVersions (lines 260-334): the groups printed, each under the
\* heading of its major, or the message of line 294
DisplayVersions(versions) ==
  LET majorVersions == SortedMajors(GroupKeys(versions))
  IN  IF majorVersions = << >>
      THEN [outcome |-> "no_major_version", groups |-> << >>]
      ELSE [outcome |-> "listed",
            groups |->
              [g \in DOMAIN majorVersions |->
                 [major |-> Itoa(majorVersions[g]),
                  versions |->
                    SortOlderFirst(
                      VersionGroup(versions, Itoa(majorVersions[g])))]]]

\* lines 215-238: the assets whose major version is the filter
FilterByMajor(versions, filter) ==
  SelectSeq(versions, LAMBDA v : ExtractMajorVersion(v) = filter)

\* versions a registry holds for a distribution
ListedVersions ==
  { <<"1", "1", ".", "0", ".", "2">>,
    <<"1", "7", ".", "0", ".", "1", "1">>,
    <<"2", "1", ".", "0", ".", "1">>,
    <<"8", "u", "1", "1">>,
    <<"1", "1">>,
    <<"2", "3", "_", "3", "7">> }

\* the third argument of the command
MajorFilters == { << >>, <<"1", "1">>, <<"1", "7">>, <<"2", "3">> }

\* what GetAvailableVersions returns without a filter for a listing: the
\* assets of different versions in descending order
Listings ==
  { SortDesc(s) :
      s \in { t \in SeqsUpTo({SDKAsset(v, "u") : v \in ListedVersions},
                             MaxListed) :
                /\ t # << >>
                /\ \A i, j \in DOMAIN t : i < j => t[i] # t[j] } }

\* handleFullCommand after FetchAvailableVersions(sdkRepo, registry, "", ...)
\* has returned (line 188); versionFilter is the filter of the command
AvailableInit ==
  /\ pc = "available"
  /\ versionFilter \in MajorFilters
  /\ \/ result \in Listings /\ err = NoErr
     \/ result = << >> /\ err = EmptyResultError(<< >>, <<"a", "/", "b">>)
  /\ patterns = << >>
  /\ repoPath = <<"a", "/", "b">>
  /\ repoType = "jdk"
  /\ apiURLValid = TRUE
  /\ remoteItems = {}
  /\ username = ""
  /\ password = ""
  /\ continuationToken = << >>
  /\ pageCount = 0
  /\ allItems = << >>
  /\ idx = 0
  /\ seenVersions = {}
  /\ sdkAssets = << >>
  /\ ignoredFiles = << >>
  /\ requests = << >>
  /\ pages = << >>
  /\ NoCalls

\* handleFullCommand, lines 188-248
HandleFullCommand ==
  /\ pc = "available"
  /\ LET versions == [i \in DOMAIN result |-> result[i].Version]
         filteredVersions == FilterByMajor(versions, versionFilter)
         kept == IF versionFilter # << >> THEN filteredVersions ELSE versions
         sorted == SortOlderFirst(kept)
     IN  cmdOut' =
           IF err # NoErr
           THEN [op |-> "available", outcome |-> "error", groups |-> << >>,
                 versions |-> << >>]
           ELSE IF versionFilter # << >> /\ filteredVersions = << >>
           THEN [op |-> "available", outcome |-> "no_version_for_major",
                 groups |-> << >>, versions |-> << >>]
           ELSE [op |-> "available",
                 outcome |-> DisplayVersions(sorted).outcome,
                 groups |-> DisplayVersions(sorted).groups,
                 versions |-> sorted]
  /\ pc' = "exit"
  /\ UNCHANGED << inputVars, extractVars, versionVars, continuationToken,
                  pageCount, allItems, idx, seenVersions, sdkAssets,
                  ignoredFiles, result, err, requests, pages,
                  installPathExists, rcFile, rcLast, fsEntries, keepCache >>

AvailableNext == HandleFullCommand

AvailableSpec == AvailableInit /\ [][AvailableNext]_vars

\* the versions printed by the last command, one entry for each line
RECURSIVE PrintedFrom(_, _)
PrintedFrom(groups, g) ==
  IF g > Len(groups) THEN << >>
  ELSE groups[g].versions \o PrintedFrom(groups, g + 1)

Printed == PrintedFrom(cmdOut.groups, 1)

\* C26: with a filter, available lists every version of the resolver's
\* result that contains the filter string, and no other version.
C26_ListsVersionsContainingFilter ==
  (cmdOut.op = "available" /\ err = NoErr /\ versionFilter # << >>) =>
    {Printed[k] : k \in DOMAIN Printed} =
      {result[i].Version : i \in {j \in DOMAIN result :
                                    Contains(result[j].Version,
                                             versionFilter)}}

----------------------------------------------------------------------------
(* The install command (cmd/install.go).                                   *)

\* the first asset of a version that contains the requested string
MatchedAssetContaining(assets, version) ==
  IF \E i \in DOMAIN assets : Contains(assets[i].Version, version)
  THEN CHOOSE i \in DOMAIN assets :
         /\ Contains(assets[i].Version, version)
         /\ \A j \in 1..(i - 1) : ~Contains(assets[j].Version, version)
  ELSE 0

\* lines 113-119: the index of the first asset whose version is the
\* requested one, 0 for matchedAsset == nil
MatchedAsset(assets, version) ==
  IF \E i \in DOMAIN assets : assets[i].Version = version
  THEN CHOOSE i \in DOMAIN assets :
         /\ assets[i].Version = version
         /\ \A j \in 1..(i - 1) : assets[j].Version # version
  ELSE 0

\* the version argument of the command
InstallVersions == { <<"1">>, <<"0">>, <<"2">>, <<"0", "1">>, <<"3">> }

\* handleInstall with a valid configuration, at its call of
\* FetchAvailableVersions(sdkRepo, registry, version, ...) (line 106);
\* versionFilter is that version
InstallInit ==
  /\ patterns = ResolverPatterns
  /\ repoPath = <<"a", "/", "b">>
  /\ repoType \in SdkTypes
  /\ versionFilter \in InstallVersions
  /\ apiURLValid = TRUE
  /\ remoteItems = DedupAssets
  /\ username = ""
  /\ password = ""
  /\ ResolverLocals
  /\ exPath = << >>
  /\ exType = ""
  /\ exOut = [op |-> "none"]
  /\ verA = << >>
  /\ verB = << >>
  /\ verC = << >>
  /\ verOut = [op |-> "none"]
  /\ cmdOut = [op |-> "none"]
  /\ installPathExists \in BOOLEAN
  /\ rcFile = << >>
  /\ rcLast = [op |-> "none", written |-> 0]
  /\ fsEntries = {}
  /\ keepCache = FALSE

\* what handleInstall returns and does: url is opts.DownloadURL handed to
\* DownloadAndExtract ("" when it is not called), mkdir is the os.MkdirAll
\* of line 140
InstallOutcome(outcome, url, mkdir) ==
  [op |-> "install", outcome |-> outcome, url |-> url, mkdir |-> mkdir]

\* handleInstall, lines 105-168, once the resolver has returned; mkdirOk and
\* downloadOk are the outcomes of os.MkdirAll and of DownloadAndExtract
HandleInstall ==
  /\ pc = "done"
  /\ \E mkdirOk \in BOOLEAN, downloadOk \in BOOLEAN :
       LET version == versionFilter
           matched == MatchedAsset(result, version)
       IN  IF err # NoErr
           THEN /\ cmdOut' = InstallOutcome("failed_to_fetch", "", FALSE)
                /\ UNCHANGED installPathExists
           ELSE IF matched = 0
           THEN /\ cmdOut' = InstallOutcome("version_not_found", "", FALSE)
                /\ UNCHANGED installPathExists
           ELSE IF installPathExists
           THEN /\ cmdOut' = InstallOutcome("already_installed", "", FALSE)
                /\ UNCHANGED installPathExists
           ELSE IF ~mkdirOk
           THEN /\ cmdOut' = InstallOutcome("mkdir_failed", "", TRUE)
                /\ UNCHANGED installPathExists
           ELSE IF ~downloadOk
           THEN /\ cmdOut' = InstallOutcome("installation_failed",
                                            result[matched].DownloadUrl, TRUE)
                /\ installPathExists' = FALSE
           ELSE /\ cmdOut' = InstallOutcome("installed",
                                            result[matched].DownloadUrl, TRUE)
                /\ installPathExists' = TRUE
  /\ pc' = "exit"
  /\ UNCHANGED << inputVars, extractVars, versionVars, continuationToken,
                  pageCount, allItems, idx, seenVersions, sdkAssets,
                  ignoredFiles, result, err, requests, pages, rcFile, rcLast,
                  fsEntries, keepCache >>

InstallNext == Next \/ HandleInstall

InstallSpec == InstallInit /\ [][InstallNext]_vars

\* C27: install hands the downloader only the URL of an asset whose version
\* is the requested string, and when the listing holds assets but none of
\* that version it fails with "version not found" before the install
\* directory is created and before anything is downloaded.
C27_ExactVersionOnly ==
  cmdOut.op = "install" =>
    /\ cmdOut.url # "" =>
         \E i \in DOMAIN result :
           /\ result[i].Version = versionFilter
           /\ result[i].DownloadUrl = cmdOut.url
    /\ (err = NoErr /\ \A i \in DOMAIN result :
                         result[i].Version # versionFilter) =>
         /\ cmdOut.outcome = "version_not_found"
         /\ cmdOut.url = ""
         /\ ~cmdOut.mkdir

\* install of a version that the listing only holds as a part of another
\* version
C27_Witness ==
  /\ cmdOut.op = "install"
  /\ err = NoErr
  /\ result # << >>
  /\ \A i \in DOMAIN result :
       /\ Contains(result[i].Version, versionFilter)
       /\ result[i].Version # versionFilter
  /\ cmdOut.outcome = "version_not_found"

\* C28: without a filter, every version of the resolver's result is printed
\* exactly once, in the group of its major version.
C28_EveryVersionShownOnce ==
  (cmdOut.op = "available" /\ err = NoErr /\ versionFilter = << >>) =>
    \A i \in DOMAIN result :
      /\ Cardinality({k \in DOMAIN Printed :
                        Printed[k] = result[i].Version}) = 1
      /\ \E g \in DOMAIN cmdOut.groups :
           /\ cmdOut.groups[g].major = ExtractMajorVersion(result[i].Version)
           /\ \E k \in DOMAIN cmdOut.groups[g].versions :
                cmdOut.groups[g].versions[k] = result[i].Version

----------------------------------------------------------------------------
(* use --set-env and use --unset on the shell rc file (cmd/use.go).        *)

\* strings.ToUpper(sdkType)
ToUpper(sdkType) ==
  CASE sdkType = "jdk" -> "JDK" [] sdkType = "node" -> "NODE"

\* The lines of the file, as strings.Split(content, "\n") gives them: the
\* last one is what follows the last newline. A line is a marker
\* "# Added by Strigo - <text> configuration", an "export <text>=..." line,
\* a blank line or any other text; id numbers the lines of the user, in the
\* order they were written, and is 0 for the lines Strigo writes and for
\* blank lines.
RcLine(kind, text, id) == [kind |-> kind, text |-> text, id |-> id]

Blank == RcLine("blank", "", 0)

\* newConfig (lines 347-361) without its leading newline, split into lines;
\* extraCerts is metadata.NodeExtraCaCerts != ""
NewConfig(sdkType, extraCerts) ==
  <<RcLine("marker", ToUpper(sdkType), 0)>>
    \o (IF sdkType = "jdk"
        THEN <<RcLine("export", "JAVA_HOME", 0), RcLine("export", "PATH", 0)>>
        ELSE <<RcLine("export", "NODE_HOME", 0), RcLine("export", "PATH", 0)>>
               \o (IF extraCerts
                   THEN <<RcLine("export", "NODE_EXTRA_CA_CERTS", 0)>>
                   ELSE << >>))
    \o <<Blank>>

\* strings.Contains(line, "# Added by Strigo - <SDK> configuration")
IsMarker(line, sdkType) ==
  line.kind = "marker" /\ line.text = ToUpper(sdkType)

\* lines 364-385 and 199-224: the loop from line i on that drops the marker,
\* the export lines after it and the blank line that ends them
RECURSIVE StripBlock(_, _, _, _)
StripBlock(lines, i, inStrigoBlock, sdkType) ==
  IF i > Len(lines) THEN << >>
  ELSE IF IsMarker(lines[i], sdkType)
       THEN StripBlock(lines, i + 1, TRUE, sdkType)
  ELSE IF inStrigoBlock /\ lines[i].kind = "export"
       THEN StripBlock(lines, i + 1, TRUE, sdkType)
  ELSE IF inStrigoBlock /\ lines[i].kind = "blank"
       THEN StripBlock(lines, i + 1, FALSE, sdkType)
  ELSE <<lines[i]>> \o StripBlock(lines, i + 1, FALSE, sdkType)

\* strings.Join(newLines, "\n") split into lines again: one empty line for
\* an empty list
Joined(newLines) == IF newLines = << >> THEN <<Blank>> ELSE newLines

\* files the user starts with: an empty one, and one line and a newline
RcFiles ==
  { <<Blank>>,
    <<RcLine("text", "alias", 1), Blank>>,
    <<RcLine("export", "FOO", 1), Blank>> }

RcInit ==
  /\ pc = "rc"
  /\ rcFile \in RcFiles
  /\ rcLast = [op |-> "none", written |-> Len(rcFile) - 1]
  /\ cmdOut = [op |-> "none"]
  /\ installPathExists = FALSE
  /\ fsEntries = {}
  /\ keepCache = FALSE
  /\ versionFilter = << >>
  /\ result = << >>
  /\ err = NoErr
  /\ patterns = << >>
  /\ repoPath = << >>
  /\ repoType = ""
  /\ apiURLValid = TRUE
  /\ remoteItems = {}
  /\ username = ""
  /\ password = ""
  /\ continuationToken = << >>
  /\ pageCount = 0
  /\ allItems = << >>
  /\ idx = 0
  /\ seenVersions = {}
  /\ sdkAssets = << >>
  /\ ignoredFiles = << >>
  /\ requests = << >>
  /\ pages = << >>
  /\ exPath = << >>
  /\ exType = ""
  /\ exOut = [op |-> "none"]
  /\ verA = << >>
  /\ verB = << >>
  /\ verC = << >>
  /\ verOut = [op |-> "none"]

\* configureEnvironment(sdkType, ...), lines 340-394
ConfigureEnvironment(sdkType, extraCerts) ==
  /\ pc = "rc"
  /\ LET newLines == StripBlock(rcFile, 1, FALSE, sdkType)
         newContent ==
           Joined(newLines) \o NewConfig(sdkType, extraCerts)
     IN  /\ Len(newContent) <= MaxRcLines
         /\ rcFile' = newContent
  /\ rcLast' = [rcLast EXCEPT !.op = "set-env"]
  /\ UNCHANGED << inputVars, extractVars, versionVars, resolverVars, cmdOut,
                  installPathExists, fsEntries, keepCache >>

\* handleUnset(sdkType), lines 193-236
HandleUnset(sdkType) ==
  /\ pc = "rc"
  /\ LET newLines == StripBlock(rcFile, 1, FALSE, sdkType)
         removed == \E i \in DOMAIN rcFile : IsMarker(rcFile[i], sdkType)
     IN  rcFile' = IF removed THEN Joined(newLines) \o <<Blank>> ELSE rcFile
  /\ rcLast' = [rcLast EXCEPT !.op = "unset"]
  /\ UNCHANGED << inputVars, extractVars, versionVars, resolverVars, cmdOut,
                  installPathExists, fsEntries, keepCache >>

\* the user adds a line and a newline at the end of the file
UserAppendsLine(kind) ==
  /\ pc = "rc"
  /\ rcLast.written < MaxUserLines
  /\ Len(rcFile) < MaxRcLines
  /\ rcFile[Len(rcFile)] = Blank
  /\ rcFile' =
       SubSeq(rcFile, 1, Len(rcFile) - 1)
         \o <<RcLine(kind, IF kind = "export" THEN "FOO" ELSE "alias",
                     rcLast.written + 1),
              Blank>>
  /\ rcLast' = [op |-> "user", written |-> rcLast.written + 1]
  /\ UNCHANGED << inputVars, extractVars, versionVars, resolverVars, cmdOut,
                  installPathExists, fsEntries, keepCache >>

RcNext ==
  \/ \E sdkType \in {"jdk", "node"}, extraCerts \in BOOLEAN :
       /\ (extraCerts => sdkType = "node")
       /\ ConfigureEnvironment(sdkType, extraCerts)
  \/ \E sdkType \in {"jdk", "node"} : HandleUnset(sdkType)
  \/ \E kind \in {"text", "export"} : UserAppendsLine(kind)

RcSpec == RcInit /\ [][RcNext]_vars

\* the lines of the file that the user wrote
UserLines == SelectSeq(rcFile, LAMBDA line : line.id > 0)

\* C29: whatever set-env and unset operations have run, the file holds
\* every line that the user wrote, in the order they were written.
C29_UserLinesKept ==
  pc = "rc" =>
    /\ Len(UserLines) = rcLast.written
    /\ \A k \in DOMAIN UserLines : UserLines[k].id = k

----------------------------------------------------------------------------
(* The cache of downloads (downloader/cache, downloader/manager.go).       *)

\* A path is the sequence of its names; << >> is the root directory.
\* filepath.Dir(path); the root is its own parent
Dir(path) ==
  IF path = << >> THEN << >> ELSE SubSeq(path, 1, Len(path) - 1)

\* path is dir or lies under it
Under(path, dir) ==
  Len(path) >= Len(dir) /\ SubSeq(path, 1, Len(dir)) = dir

\* path and the directories above it, without the root
Ancestors(path) == {SubSeq(path, 1, k) : k \in 1..Len(path)}

\* cfg.General.CacheDir
CacheDir == <<"h", "c">>

\* filepath.Join(cacheDir, sdkType, distribution, version)
CachePath(sdkType, distribution, version) ==
  CacheDir \o <<sdkType, distribution, version>>

\* os.MkdirAll(path)
MkdirAll(fs, path) == fs \cup Ancestors(path)

\* os.RemoveAll(path)
RemoveAll(fs, path) == {e \in fs : ~Under(e, path)}

\* isDirEmpty(path): no entry directly in the directory
IsDirEmpty(fs, path) == ~\E e \in fs : e # path /\ Dir(e) = path

\* lines 44-54: the loop over the parents; removable is the number of calls
\* of os.Remove that succeed before one fails
RECURSIVE CleanParents(_, _, _)
CleanParents(fs, parent, removable) ==
  IF parent = Dir(parent) THEN fs
  ELSE IF parent \notin fs \/ ~IsDirEmpty(fs, parent) THEN fs
  ELSE IF removable = 0 THEN fs
  ELSE CleanParents(fs \ {parent}, Dir(parent), removable - 1)

\* cleanupCacheDirectory(cachePath), lines 39-55
CleanupCacheDirectory(fs, cachePath, removable) ==
  CleanParents(RemoveAll(fs, cachePath), Dir(cachePath), removable)

\* what may lie in and next to the cache directory before an installation:
\* another file of the home directory, other cached versions
OtherEntries ==
  { <<"h", "x">>,
    <<"h", "c", "jdk", "temurin", "11">>,
    <<"h", "c", "jdk", "corretto", "17">>,
    <<"h", "c", "node", "nodejs", "17">> }

CacheSdkTypes == {"jdk", "node"}

CacheDistributions == {"temurin", "nodejs"}

CacheVersions == {"11", "17"}

\* DownloadAndExtract at its call of PrepareCacheDirectory (line 62): the
\* cache directory exists
CacheInit ==
  /\ pc = "cache"
  /\ \E others \in SUBSET OtherEntries :
       fsEntries = Ancestors(CacheDir) \cup UNION {Ancestors(e) : e \in others}
  /\ keepCache \in BOOLEAN
  /\ cmdOut = [op |-> "none"]
  /\ installPathExists = FALSE
  /\ rcFile = << >>
  /\ rcLast = [op |-> "none", written |-> 0]
  /\ versionFilter = << >>
  /\ result = << >>
  /\ err = NoErr
  /\ patterns = << >>
  /\ repoPath = << >>
  /\ repoType = ""
  /\ apiURLValid = TRUE
  /\ remoteItems = {}
  /\ username = ""
  /\ password = ""
  /\ continuationToken = << >>
  /\ pageCount = 0
  /\ allItems = << >>
  /\ idx = 0
  /\ seenVersions = {}
  /\ sdkAssets = << >>
  /\ ignoredFiles = << >>
  /\ requests = << >>
  /\ pages = << >>
  /\ exPath = << >>
  /\ exType = ""
  /\ exOut = [op |-> "none"]
  /\ verA = << >>
  /\ verB = << >>
  /\ verC = << >>
  /\ verOut = [op |-> "none"]

\* PrepareCacheDirectory(sdkType, distribution, version, cacheDir)
PrepareCacheDirectory(sdkType, distribution, version) ==
  /\ pc = "cache"
  /\ fsEntries' = MkdirAll(fsEntries, CachePath(sdkType, distribution, version))
  /\ cmdOut' = [op |-> "PrepareCacheDirectory",
                cachePath |-> CachePath(sdkType, distribution, version)]
  /\ pc' = "download"
  /\ UNCHANGED << inputVars, extractVars, versionVars, continuationToken,
                  pageCount, allItems, idx, seenVersions, sdkAssets,
                  ignoredFiles, result, err, requests, pages,
                  installPathExists, rcFile, rcLast, keepCache >>

\* manager.go lines 68-71: the archive written into the cache path, or
\* "download failed" returned
DownloadFile ==
  /\ pc = "download"
  /\ \E ok \in BOOLEAN :
       IF ok
       THEN /\ fsEntries' = fsEntries \cup {cmdOut.cachePath \o <<"archive">>}
            /\ cmdOut' = [cmdOut EXCEPT !.op = "DownloadFile"]
            /\ pc' = "unpack"
       ELSE /\ cmdOut' = [cmdOut EXCEPT !.op = "download failed"]
            /\ pc' = "exit"
            /\ UNCHANGED fsEntries
  /\ UNCHANGED << inputVars, extractVars, versionVars, continuationToken,
                  pageCount, allItems, idx, seenVersions, sdkAssets,
                  ignoredFiles, result, err, requests, pages,
                  installPathExists, rcFile, rcLast, keepCache >>

\* manager.go lines 73-81: ValidateDirectories and Extract, or their error
\* returned
Extract ==
  /\ pc = "unpack"
  /\ \E ok \in BOOLEAN :
       IF ok
       THEN /\ installPathExists' = TRUE
            /\ cmdOut' = [cmdOut EXCEPT !.op = "Extract"]
            /\ pc' = "cleanup"
       ELSE /\ cmdOut' = [cmdOut EXCEPT !.op = "extraction failed"]
            /\ pc' = "exit"
            /\ UNCHANGED installPathExists
  /\ UNCHANGED << inputVars, extractVars, versionVars, continuationToken,
                  pageCount, allItems, idx, seenVersions, sdkAssets,
                  ignoredFiles, result, err, requests, pages, rcFile, rcLast,
                  fsEntries, keepCache >>

\* CleanupCache(cachePath, opts.KeepCache), manager.go line 84
CleanupCache ==
  /\ pc = "cleanup"
  /\ \E removable \in 0..Len(cmdOut.cachePath) :
       /\ fsEntries' =
            IF keepCache THEN fsEntries
            ELSE CleanupCacheDirectory(fsEntries, cmdOut.cachePath, removable)
       /\ cmdOut' = [op |-> "CleanupCache", cachePath |-> cmdOut.cachePath]
  /\ pc' = "exit"
  /\ UNCHANGED << inputVars, extractVars, versionVars, continuationToken,
                  pageCount, allItems, idx, seenVersions, sdkAssets,
                  ignoredFiles, result, err, requests, pages,
                  installPathExists, rcFile, rcLast, keepCache >>

CacheNext ==
  \/ \E sdkType \in CacheSdkTypes, distribution \in CacheDistributions,
        version \in CacheVersions :
       PrepareCacheDirectory(sdkType, distribution, version)
  \/ DownloadFile
  \/ Extract
  \/ CleanupCache

CacheSpec == CacheInit /\ [][CacheNext]_vars

\* C30: after the cleanup of an installation with keep_cache = false the
\* cache directory of the version is gone, and the configured cache
\* directory and every directory above it are still there.
C30_CacheDirKept ==
  (cmdOut.op = "CleanupCache" /\ ~keepCache) =>
    /\ \A e \in fsEntries : ~Under(e, cmdOut.cachePath)
    /\ Ancestors(CacheDir) \subseteq fsEntries
====
